---- MODULE Spec2Model ----
(***************************************************************************)
(* Model of the peer coordinator (src/p2pool/p2p/Peer.ts), of the task     *)
(* server's block-notify listener (src/pool/task/TaskServer.ts) and of the *)
(* share parser (src/p2pool/p2p/shares/BaseShare.ts).                      *)
(*                                                                         *)
(* A JavaScript Map is a sequence of [k, v] entries in insertion order.    *)
(* A TransactionTemplate is [txid, hash, data] where data stands for the   *)
(* hex string by its length in hex digits (always even: hex of bytes).     *)
(* A Transaction received from a peer is [hash, data]: getHash() and       *)
(* toHex() read these fields.                                              *)
(***************************************************************************)
EXTENDS Integers, Sequences, FiniteSets, TLC

\* ---------------------------------------------------------------- bounds
MaxNodes == 2
MaxTxs == 2
MaxHashes == 2
MaxPeerTxs == 1
MaxDeliveries == 3
MaxConns == 2
MaxRemovals == 11
MaxRefs == 2
MaxNewTxs == 2
MaxWork == 5
MantissaBits == 2

\* ------------------------------------------------------ program constants
MaxCaches == 10
MaxShareCount == 110

\* ---------------------------------------------------------------- inputs
Nodes == 1..MaxNodes
NoNode == 0
Tags == {"t1", "t2"}
Hashes == {"h1", "h2"}

\* a segwit template (txid differs from hash) and one without txid
T1 == [txid |-> "h1", hash |-> "w1", data |-> 200]
T2 == [txid |-> "", hash |-> "h2", data |-> 300]
Templates == {T1, T2}

\* the full transactions a remote peer may put into remember_tx
P1 == [hash |-> "h1", data |-> 200]
PeerTxs == {P1}

NoTx == [txid |-> "", hash |-> "", data |-> 0]

SeqsUpTo(S, n) == UNION {[1..k -> S] : k \in 0..n}

\* the transaction lists of block templates: no transaction is listed twice
TemplateTxs(S, n) == {txs \in SeqsUpTo(S, n) : \A i, j \in 1..Len(txs) : txs[i] = txs[j] => i = j}

\* ------------------------------------------------------------- Map, Array
EmptyMap == <<>>
MapKeys(m) == [i \in 1..Len(m) |-> m[i].k]
MapValues(m) == [i \in 1..Len(m) |-> m[i].v]
KeySet(m) == {m[i].k : i \in 1..Len(m)}
MapHas(m, key) == key \in KeySet(m)
MapGet(m, key) == m[CHOOSE i \in 1..Len(m) : m[i].k = key].v
MapSet(m, key, val) ==
    IF MapHas(m, key)
    THEN [i \in 1..Len(m) |-> IF m[i].k = key THEN [k |-> key, v |-> val] ELSE m[i]]
    ELSE Append(m, [k |-> key, v |-> val])

\* a.except(b, (e1, e2) => e1[0] === e2[0]): the entries of a whose key b lacks
ExceptByKey(a, b) == SelectSeq(a, LAMBDA e : ~MapHas(b, e.k))

\* tx.txid || tx.hash
TxKey_HashOnly(tx) == tx.hash

TxKey(tx) == IF tx.txid # "" THEN tx.txid ELSE tx.hash

TxKeys(txs) == [i \in 1..Len(txs) |-> TxKey(txs[i])]

\* removed.sum(item => item.data.length / 2)
RECURSIVE SumSizes_Unhalved(_)
SumSizes_Unhalved(txs) ==
    IF txs = <<>> THEN 0 ELSE Head(txs).data + SumSizes_Unhalved(Tail(txs))

RECURSIVE SumSizes(_)
SumSizes(txs) == IF txs = <<>> THEN 0 ELSE (Head(txs).data \div 2) + SumSizes(Tail(txs))

\* ---------------------------------------------------------------- messages
Msg(cmd, hashes, txs, totalSize) ==
    [cmd |-> cmd, hashes |-> hashes, txs |-> txs, totalSize |-> totalSize]
VersionMsg == Msg("version", <<>>, <<>>, 0)
HaveTxMsg(hashes) == Msg("have_tx", hashes, <<>>, 0)
LosingTxMsg(hashes) == Msg("losing_tx", hashes, <<>>, 0)
RememberTxMsg(hashes, txs) == Msg("remember_tx", hashes, txs, 0)
ForgetTxMsg(hashes, totalSize) == Msg("forget_tx", hashes, <<>>, totalSize)

\* ------------------------------------------------------------------ state
VARIABLES
    status,           \* Node: "absent" (no such object), "live", "closed" (close() called, end pending)
    tag,              \* Node.tag
    hsPc,             \* position of handleNodeVersion for the node: "none", "awaitHave", "done"
    rememberedTxs,    \* Node.rememberedTxs (key set)
    remoteTxHashs,    \* Node.remoteTxHashs
    peers,            \* Peer.peers: tag -> node, NoNode where the map has no entry
    knownTxs,         \* Peer.knownTxs.value
    miningTxs,        \* Peer.miningTxs.value
    knownTxsCaches,   \* Peer.knownTxsCaches
    sent,             \* per node, the messages the last step handed to its send methods, in order
    lastOp,           \* the last step taken, with the inputs and outcome the properties read
    closeReason,      \* why close() was called on the node, "" while it was not
    knownSets,        \* assignments to knownTxs so far, counted up to MaxCaches + 1
    removals,         \* the entry each LoseKnownTx removed, in order
    blockNotifyEnabled, \* opts.blocknotifylistener.enabled
    watching,         \* daemonWatcher.beginWatching() was called
    pusherReady,      \* taskPusher signalled ready
    lastNotifiedHash, \* TaskServer.lastNotifiedHash
    refreshCount,     \* calls of daemonWatcher.refreshMiningInfoAsync
    conns,            \* block-notify connections: position of the handler and the hash read
    notifyLog,        \* block-notify deliveries in order: [hash, refreshed]
    toldTxs,          \* per node, the keys sent to it in remember_tx and in no forget_tx since
    MAX_TARGET,       \* BaseShare.MAX_TARGET
    version,          \* the version the caller of fromBufferReader read
    reader,           \* the BufferReader: the share on the wire and the fields read so far
    share,            \* the share object fromBufferReader built, NoShare while there is none
    parsed            \* how fromBufferReader ended: "none" (not called), "null", "share", "AssertionError"

peerVars == <<status, tag, hsPc, rememberedTxs, remoteTxHashs, peers, knownTxs,
              miningTxs, knownTxsCaches, sent, lastOp, closeReason, knownSets,
              removals>>
taskVars == <<blockNotifyEnabled, watching, pusherReady, lastNotifiedHash,
              refreshCount, conns, notifyLog>>
shareVars == <<MAX_TARGET, version, reader, share, parsed>>
vars == <<peerVars, taskVars, shareVars, toldTxs>>

NoSent == [n \in Nodes |-> <<>>]
Op(op, node, hashes, txs, result) ==
    [op |-> op, node |-> node, hashes |-> hashes, txs |-> txs, result |-> result]

\* one more assignment to knownTxs
CountSet(n) == IF n > MaxCaches THEN n ELSE n + 1

\* the nodes the peers map holds
PeerNodes(prs) == {prs[t] : t \in Tags} \ {NoNode}

PeerInit ==
    /\ removals = <<>>
    /\ closeReason = [n \in Nodes |-> ""]
    /\ knownSets = 0
    /\ status = [n \in Nodes |-> "absent"]
    /\ tag = [n \in Nodes |-> "t1"]
    /\ hsPc = [n \in Nodes |-> "none"]
    /\ rememberedTxs = [n \in Nodes |-> {}]
    /\ remoteTxHashs = [n \in Nodes |-> {}]
    /\ peers = [t \in Tags |-> NoNode]
    /\ knownTxs = EmptyMap
    /\ miningTxs = EmptyMap
    /\ knownTxsCaches = <<>>
    /\ sent = NoSent
    /\ lastOp = Op("init", NoNode, <<>>, <<>>, "")

\* ------------------------------------------------- Peer: property listeners
KnownAdded(oldValue, newValue) == MapKeys(ExceptByKey(newValue, oldValue))
KnownRemoved(oldValue, newValue) == MapKeys(ExceptByKey(oldValue, newValue))

\* what onKnownTxsChanged sends to each peer of the map
KnownTxsMsgs_Unguarded(oldValue, newValue) ==
    <<HaveTxMsg(KnownAdded(oldValue, newValue)), LosingTxMsg(KnownRemoved(oldValue, newValue))>>

KnownTxsMsgs(oldValue, newValue) ==
    LET added == KnownAdded(oldValue, newValue)
        removed == KnownRemoved(oldValue, newValue)
    IN  (IF added # <<>> THEN <<HaveTxMsg(added)>> ELSE <<>>)
        \o (IF removed # <<>> THEN <<LosingTxMsg(removed)>> ELSE <<>>)

\* removed.select(hash => {hash, tx: oldValue.get(hash)}).toMap(...)
Snapshot(oldValue, removed) ==
    [i \in 1..Len(removed) |-> [k |-> removed[i], v |-> MapGet(oldValue, removed[i])]]

\* knownTxsCaches after onKnownTxsChanged: push, then shift when longer than 10
CachesAfter_NoShift(caches, oldValue, newValue) ==
    Append(caches, Snapshot(oldValue, KnownRemoved(oldValue, newValue)))

CachesAfter_DropNewest(caches, oldValue, newValue) ==
    LET pushed == Append(caches, Snapshot(oldValue, KnownRemoved(oldValue, newValue)))
    IN  IF Len(pushed) > MaxCaches THEN SubSeq(pushed, 1, MaxCaches) ELSE pushed

CachesAfter(caches, oldValue, newValue) ==
    LET pushed == Append(caches, Snapshot(oldValue, KnownRemoved(oldValue, newValue)))
    IN  IF Len(pushed) > MaxCaches THEN Tail(pushed) ELSE pushed

MiningAdded(oldValue, newValue) == MapValues(ExceptByKey(newValue, oldValue))
MiningRemoved(oldValue, newValue) == MapValues(ExceptByKey(oldValue, newValue))

\* what onMiningTxsChanged sends to a peer whose remoteTxHashs is remote
MiningTxsMsgs_AllAsTxs(oldValue, newValue, remote) ==
    LET added == MiningAdded(oldValue, newValue)
        removed == MiningRemoved(oldValue, newValue)
    IN  (IF added # <<>> THEN <<RememberTxMsg(<<>>, added)>> ELSE <<>>)
        \o (IF removed # <<>>
            THEN <<ForgetTxMsg(TxKeys(removed), SumSizes(removed))>>
            ELSE <<>>)

MiningTxsMsgs_Swapped(oldValue, newValue, remote) ==
    LET added == MiningAdded(oldValue, newValue)
        removed == MiningRemoved(oldValue, newValue)
    IN  (IF added # <<>>
         THEN <<RememberTxMsg(TxKeys(SelectSeq(added, LAMBDA tx : TxKey(tx) \notin remote)),
                              SelectSeq(added, LAMBDA tx : TxKey(tx) \in remote))>>
         ELSE <<>>)
        \o (IF removed # <<>>
            THEN <<ForgetTxMsg(TxKeys(removed), SumSizes(removed))>>
            ELSE <<>>)

MiningTxsMsgs(oldValue, newValue, remote) ==
    LET added == MiningAdded(oldValue, newValue)
        removed == MiningRemoved(oldValue, newValue)
    IN  (IF added # <<>>
         THEN <<RememberTxMsg(TxKeys(SelectSeq(added, LAMBDA tx : TxKey(tx) \in remote)),
                              SelectSeq(added, LAMBDA tx : TxKey(tx) \notin remote))>>
         ELSE <<>>)
        \o (IF removed # <<>>
            THEN <<ForgetTxMsg(TxKeys(removed), SumSizes(removed))>>
            ELSE <<>>)

\* ---------------------------------------------------- Peer: registration
\* new Node(): the lowest free slot names the new object
FreshNode == CHOOSE n \in Nodes : status[n] = "absent" /\ \A m \in Nodes : status[m] = "absent" => n <= m

\* initNode, after sendVersionAsync: handlers installed, peers.set(node.tag, node)
InitNode(n, t, how) ==
    /\ status' = [status EXCEPT ![n] = "live"]
    /\ tag' = [tag EXCEPT ![n] = t]
    /\ hsPc' = [hsPc EXCEPT ![n] = "none"]
    /\ rememberedTxs' = [rememberedTxs EXCEPT ![n] = {}]
    /\ remoteTxHashs' = [remoteTxHashs EXCEPT ![n] = {}]
    /\ peers' = [peers EXCEPT ![t] = n]
    /\ sent' = [NoSent EXCEPT ![n] = <<VersionMsg>>]
    /\ lastOp' = Op(how, NoNode, <<>>, <<>>, "")
    /\ closeReason' = [closeReason EXCEPT ![n] = ""]
    /\ UNCHANGED <<knownTxs, miningTxs, knownTxsCaches, removals, knownSets, taskVars, shareVars>>

\* onSocketConnected: an inbound connection from tag t, the remote endpoint of no
\* other open socket
OnSocketConnected(t) ==
    /\ \E n \in Nodes : status[n] = "absent"
    /\ \A m \in Nodes : status[m] = "live" => tag[m] # t
    /\ InitNode(FreshNode, t, "accept")

\* one iteration of initPeersAsync whose connectAsync succeeded
InitPeer(t) ==
    /\ \E n \in Nodes : status[n] = "absent"
    /\ InitNode(FreshNode, t, "connect")

\* this.peers.delete(sender.tag)
PeersDelete_Nothing(prs, t) == prs

PeersDelete(prs, t) == [prs EXCEPT ![t] = NoNode]

\* the end handler of initNode: peers.delete(sender.tag); the node object is dropped
OnEnd(n) ==
    /\ status[n] \in {"live", "closed"}
    /\ peers' = PeersDelete(peers, tag[n])
    /\ status' = [status EXCEPT ![n] = "absent"]
    /\ hsPc' = [hsPc EXCEPT ![n] = "none"]
    /\ rememberedTxs' = [rememberedTxs EXCEPT ![n] = {}]
    /\ remoteTxHashs' = [remoteTxHashs EXCEPT ![n] = {}]
    /\ tag' = [tag EXCEPT ![n] = "t1"]
    /\ sent' = NoSent
    /\ lastOp' = Op("end", n, <<>>, <<>>, closeReason[n])
    /\ closeReason' = [closeReason EXCEPT ![n] = ""]
    /\ UNCHANGED <<knownTxs, miningTxs, knownTxsCaches, removals, knownSets, taskVars, shareVars>>

\* ---------------------------------------------------- Peer: node events
\* the messages of handleNodeVersion
VersionHaveTx(known) == HaveTxMsg(MapKeys(known))

VersionRememberTx_AsHashes(mining) == RememberTxMsg(MapKeys(mining), <<>>)

VersionRememberTx(mining) == RememberTxMsg(<<>>, MapValues(mining))

\* handleNodeVersion up to its first await
HandleNodeVersion(n) ==
    /\ status[n] = "live"
    /\ hsPc[n] = "none"
    /\ hsPc' = [hsPc EXCEPT ![n] = "awaitHave"]
    /\ sent' = [NoSent EXCEPT ![n] = <<VersionHaveTx(knownTxs)>>]
    /\ lastOp' = Op("versionVerified", n, <<>>, <<>>, "")
    /\ UNCHANGED <<status, tag, rememberedTxs, remoteTxHashs, peers, knownTxs,
                   miningTxs, knownTxsCaches, removals, closeReason, knownSets, taskVars, shareVars>>

\* handleNodeVersion resumed after the have_tx was written
HandleNodeVersionResume(n) ==
    /\ status[n] \in {"live", "closed"}
    /\ hsPc[n] = "awaitHave"
    /\ hsPc' = [hsPc EXCEPT ![n] = "done"]
    /\ sent' = [NoSent EXCEPT ![n] = <<VersionRememberTx(miningTxs)>>]
    /\ lastOp' = Op("versionResume", n, <<>>, <<>>, "")
    /\ UNCHANGED <<status, tag, rememberedTxs, remoteTxHashs, peers, knownTxs,
                   miningTxs, knownTxsCaches, removals, closeReason, knownSets, taskVars, shareVars>>

\* the remote advertises or withdraws a hash: Node keeps remoteTxHashs
OnHaveTx(n, h) ==
    /\ status[n] = "live"
    /\ h \notin remoteTxHashs[n]
    /\ remoteTxHashs' = [remoteTxHashs EXCEPT ![n] = @ \cup {h}]
    /\ sent' = NoSent
    /\ lastOp' = Op("have_tx", NoNode, <<>>, <<>>, "")
    /\ UNCHANGED <<status, tag, hsPc, rememberedTxs, peers, knownTxs, miningTxs,
                   knownTxsCaches, removals, closeReason, knownSets, taskVars, shareVars>>

OnLosingTx(n, h) ==
    /\ status[n] = "live"
    /\ h \in remoteTxHashs[n]
    /\ remoteTxHashs' = [remoteTxHashs EXCEPT ![n] = @ \ {h}]
    /\ sent' = NoSent
    /\ lastOp' = Op("losing_tx", NoNode, <<>>, <<>>, "")
    /\ UNCHANGED <<status, tag, hsPc, rememberedTxs, peers, knownTxs, miningTxs,
                   knownTxsCaches, removals, closeReason, knownSets, taskVars, shareVars>>

\* sender.close(false) and return: only the sender changes
CloseSender_Committing(n, remembered, txHashes, txs, why) ==
    /\ status' = [status EXCEPT ![n] = "closed"]
    /\ rememberedTxs' = [rememberedTxs EXCEPT ![n] = remembered]
    /\ knownTxs' = [i \in 1..Len(txs) |->
                       [k |-> txs[i].hash,
                        v |-> [txid |-> txs[i].hash, hash |-> txs[i].hash, data |-> txs[i].data]]]
                   \o SelectSeq(knownTxs, LAMBDA e : \A i \in 1..Len(txs) : txs[i].hash # e.k)
    /\ sent' = NoSent
    /\ lastOp' = Op("remember_tx", n, txHashes, txs, why)
    /\ closeReason' = [closeReason EXCEPT ![n] = why]
    /\ UNCHANGED <<tag, hsPc, remoteTxHashs, peers, miningTxs,
                   knownTxsCaches, removals, knownSets, taskVars, shareVars>>

CloseSender(n, remembered, txHashes, txs, why) ==
    /\ status' = [status EXCEPT ![n] = "closed"]
    /\ rememberedTxs' = [rememberedTxs EXCEPT ![n] = remembered]
    /\ sent' = NoSent
    /\ lastOp' = Op("remember_tx", n, txHashes, txs, why)
    /\ closeReason' = [closeReason EXCEPT ![n] = why]
    /\ UNCHANGED <<tag, hsPc, remoteTxHashs, peers, knownTxs, miningTxs,
                   knownTxsCaches, removals, knownSets, taskVars, shareVars>>

\* this.knownTxs.value.get(hash) || this.knownTxsCaches.where(...).select(...).firstOrDefault()
LookupKnownTx(known, caches, hash) ==
    IF MapHas(known, hash) THEN MapGet(known, hash)
    ELSE LET hits == SelectSeq(caches, LAMBDA cache : MapHas(cache, hash))
         IN  IF hits = <<>> THEN NoTx ELSE MapGet(hits[1], hash)

\* the loop over txHashes, from its i-th element on
RECURSIVE RememberHashes(_, _, _, _, _)
RememberHashes(txHashes, i, remembered, known, caches) ==
    IF i > Len(txHashes) THEN [result |-> "ok", remembered |-> remembered]
    ELSE IF \E j \in 1..Len(txHashes) : txHashes[j] \in remembered
    THEN [result |-> "hashTwice", remembered |-> remembered]
    ELSE IF LookupKnownTx(known, caches, txHashes[i]) = NoTx
    THEN [result |-> "unknown", remembered |-> remembered]
    ELSE RememberHashes(txHashes, i + 1, remembered \cup {txHashes[i]}, known, caches)

\* the loop over txs, from its i-th element on; working is the copy of knownTxs
RECURSIVE RememberTxs(_, _, _, _)
RememberTxs(txs, i, remembered, working) ==
    IF i > Len(txs) THEN [result |-> "ok", remembered |-> remembered, known |-> working]
    ELSE IF txs[i].hash \in remembered
    THEN [result |-> "txTwice", remembered |-> remembered, known |-> working]
    ELSE RememberTxs(txs, i + 1, remembered \cup {txs[i].hash},
                     MapSet(working, txs[i].hash,
                            [txid |-> txs[i].hash, hash |-> txs[i].hash, data |-> txs[i].data]))

\* handleRemember_tx
HandleRemember_tx(n, txHashes, txs) ==
    /\ status[n] = "live"
    /\ LET r1 == RememberHashes(txHashes, 1, rememberedTxs[n], knownTxs, knownTxsCaches)
           r2 == RememberTxs(txs, 1, r1.remembered, knownTxs)
       IN  IF r1.result # "ok" THEN CloseSender(n, r1.remembered, txHashes, txs, r1.result)
           ELSE IF r2.result # "ok" THEN CloseSender(n, r2.remembered, txHashes, txs, r2.result)
           ELSE /\ rememberedTxs' = [rememberedTxs EXCEPT ![n] = r2.remembered]
                /\ knownTxs' = r2.known
                /\ knownTxsCaches' = CachesAfter(knownTxsCaches, knownTxs, r2.known)
                /\ sent' = [m \in Nodes |-> IF m \in PeerNodes(peers)
                                            THEN KnownTxsMsgs(knownTxs, r2.known) ELSE <<>>]
                /\ lastOp' = Op("remember_tx", n, txHashes, txs, "ok")
                /\ knownSets' = CountSet(knownSets)
                /\ UNCHANGED <<status, tag, hsPc, remoteTxHashs, peers, miningTxs,
                               removals, closeReason, taskVars, shareVars>>

\* ------------------------------------------------------- Peer: updateGbt
RECURSIVE SetAll(_, _)
SetAll(m, txs) ==
    IF txs = <<>> THEN m ELSE SetAll(MapSet(m, TxKey(Head(txs)), Head(txs)), Tail(txs))

\* the map updateGbt assigns to miningTxs
GbtMiningTxs(txs) == SetAll(EmptyMap, txs)

\* the map updateGbt assigns to knownTxs
GbtKnownTxs_Replaced(known, txs) == SetAll(EmptyMap, txs)

GbtKnownTxs_Unmerged(known, txs) == known

GbtKnownTxs(known, txs) == SetAll(known, txs)

UpdateGbt(txs) ==
    LET newMining == GbtMiningTxs(txs)
        newKnown == GbtKnownTxs(knownTxs, txs)
    IN  /\ miningTxs' = newMining
        /\ knownTxs' = newKnown
        /\ knownTxsCaches' = CachesAfter(knownTxsCaches, knownTxs, newKnown)
        /\ sent' = [m \in Nodes |-> IF m \in PeerNodes(peers)
                                    THEN MiningTxsMsgs(miningTxs, newMining, remoteTxHashs[m])
                                         \o KnownTxsMsgs(knownTxs, newKnown)
                                    ELSE <<>>]
        /\ lastOp' = Op("updateGbt", NoNode, <<>>, txs, "")
        /\ knownSets' = CountSet(knownSets)
        /\ UNCHANGED <<status, tag, hsPc, rememberedTxs, remoteTxHashs, peers,
                       removals, closeReason, taskVars, shareVars>>

\* ------------------------------------------- Peer: knownTxs losing entries
\* transactions of a template of MaxRemovals + 1 distinct transactions
CacheHashes == <<"c01", "c02", "c03", "c04", "c05", "c06", "c07", "c08", "c09", "c10",
                 "c11", "c12", "c13", "c14">>
CacheTxs == [i \in 1..(MaxRemovals + 1) |->
                [txid |-> CacheHashes[i], hash |-> CacheHashes[i], data |-> 2 * i]]

\* this.knownTxs.set(m) where m is knownTxs without the key hash: the listener
\* onKnownTxsChanged runs before set returns
LoseKnownTx(hash) ==
    LET newValue == SelectSeq(knownTxs, LAMBDA e : e.k # hash)
    IN  /\ MapHas(knownTxs, hash)
        /\ Len(removals) < MaxRemovals
        /\ knownTxs' = newValue
        /\ knownTxsCaches' = CachesAfter(knownTxsCaches, knownTxs, newValue)
        /\ sent' = [m \in Nodes |-> IF m \in PeerNodes(peers)
                                    THEN KnownTxsMsgs(knownTxs, newValue) ELSE <<>>]
        /\ removals' = Append(removals, [k |-> hash, v |-> MapGet(knownTxs, hash)])
        /\ knownSets' = CountSet(knownSets)
        /\ lastOp' = Op("knownTxs.set", NoNode, <<hash>>, <<>>, "")
        /\ UNCHANGED <<status, tag, hsPc, rememberedTxs, remoteTxHashs, peers, miningTxs,
                       closeReason, taskVars, shareVars>>

\* ------------------------------------------------------------ TaskServer
Conns == 1..MaxConns
NotifiedHashes == {"", "A", "B"}

TaskInit ==
    /\ blockNotifyEnabled \in BOOLEAN
    /\ watching = ~blockNotifyEnabled
    /\ pusherReady = FALSE
    /\ lastNotifiedHash = "undefined"
    /\ refreshCount = 0
    /\ conns = [c \in Conns |-> "idle"]
    /\ notifyLog = <<>>

\* onPusherReady
OnPusherReady ==
    /\ ~pusherReady
    /\ pusherReady' = TRUE
    /\ refreshCount' = refreshCount + 1
    /\ UNCHANGED <<blockNotifyEnabled, watching, lastNotifiedHash, conns, notifyLog, peerVars, shareVars>>

\* onBlockNotifyingSocketConnected up to await s.readAsync()
OnBlockNotifyingSocketConnected(c) ==
    /\ blockNotifyEnabled
    /\ conns[c] = "idle"
    /\ Len(notifyLog) + Cardinality({d \in Conns : conns[d] = "reading"}) < MaxDeliveries
    /\ conns' = [conns EXCEPT ![c] = "reading"]
    /\ UNCHANGED <<blockNotifyEnabled, watching, pusherReady, lastNotifiedHash,
                   refreshCount, notifyLog, peerVars, shareVars>>

\* whether a delivery of hash calls refreshMiningInfoAsync
NotifyRefreshes(last, hash) == hash # "" /\ last # hash

\* the handler resumed with the hash read, up to await refreshMiningInfoAsync()
OnBlockNotifyRead(c, hash) ==
    /\ conns[c] = "reading"
    /\ LET refresh == NotifyRefreshes(lastNotifiedHash, hash)
       IN  /\ conns' = [conns EXCEPT ![c] = IF refresh THEN "refreshing" ELSE "idle"]
           /\ refreshCount' = IF refresh THEN refreshCount + 1 ELSE refreshCount
           /\ notifyLog' = Append(notifyLog, [hash |-> hash, refreshed |-> refresh])
    /\ UNCHANGED <<blockNotifyEnabled, watching, pusherReady, lastNotifiedHash, peerVars, shareVars>>

\* the handler resumed after the refresh: console.info, return
OnBlockNotifyRefreshed(c) ==
    /\ conns[c] = "refreshing"
    /\ conns' = [conns EXCEPT ![c] = "idle"]
    /\ UNCHANGED <<blockNotifyEnabled, watching, pusherReady, lastNotifiedHash,
                   refreshCount, notifyLog, peerVars, shareVars>>

\* ------------------------------------------------------------- BaseShare
\* const ShareVersionMapper = { 16: Share, 17: NewShare }: whether the lookup
\* yields a constructor
ShareVersionMapper_From16(v) == v >= 16

ShareVersionMapper(v) == v \in {16, 17}

Versions == {15, 16, 17, 18}

\* the tuples of extractTransactionHashRefs()
ShareCounts == {0, 1, MaxShareCount}
TxCounts == 0..1
HashRefs == [shareCount : ShareCounts, txCount : TxCounts]

\* BigNum.toNumber(): the nearest number of MantissaBits significant bits, ties to even
RECURSIVE BitLength(_)
BitLength(x) == IF x = 0 THEN 0 ELSE 1 + BitLength(x \div 2)

ToNumber(x) ==
    LET e == BitLength(x) - MantissaBits
    IN  IF e <= 0 THEN x
        ELSE LET unit == 2 ^ e
                 q == x \div unit
                 r == x % unit
                 up == 2 * r > unit \/ (2 * r = unit /\ q % 2 = 1)
             IN  (IF up THEN q + 1 ELSE q) * unit

\* PowFunc(header) read as a little-endian integer, and the numbers bitsToTarget yields
Works == 3..MaxWork
Targets == {ToNumber(w) : w \in Works}

\* a share on the wire, by what init() reads of it: the hash refs and the new
\* transaction hashes of its ShareInfo, bitsToTarget(info.bits), and PowFunc of
\* the header it builds
Wires == [refs : SeqsUpTo(HashRefs, MaxRefs),
          newTransactionHashes : SeqsUpTo({"h1"}, MaxNewTxs),
          target : Targets,
          pow : Works]

NoWire == [refs |-> <<>>, newTransactionHashes |-> <<>>, target |-> 0, pow |-> 0]
NoShare == [VERSION |-> 0, info |-> NoWire, newTxHashes |-> <<>>, target |-> 0,
            validity |-> FALSE]

\* the fields fromBufferReader reads: minHeader, info, refMerkleLink,
\* lastTxoutNonce, hashLink, merkleLink
ShareFields == 6

\* new constructor(), then the fields read from the reader
ConstructShare(v, wire) ==
    [VERSION |-> v, info |-> wire, newTxHashes |-> <<>>, target |-> 0, validity |-> FALSE]

\* the Set n of init(): the txCount of every tuple whose shareCount is not above 0
RefSet(refs) == {refs[i].txCount : i \in {j \in 1..Len(refs) : ~(refs[j].shareCount > 0)}}

\* assert.equal(shareCount < 110, true) fails on some tuple
AssertFails(refs) == \E i \in 1..Len(refs) : ~(refs[i].shareCount < MaxShareCount)

\* init(): how it ends ("AssertionError", "false", "true") and the share it leaves
init(s, maxTarget) ==
    LET withTarget == [s EXCEPT !.newTxHashes = s.info.newTransactionHashes,
                                !.target = s.info.target]
    IN  IF AssertFails(s.info.refs) THEN [ends |-> "AssertionError", share |-> s]
        ELSE IF Cardinality(RefSet(s.info.refs)) # Len(s.info.newTransactionHashes)
        THEN [ends |-> "false", share |-> s]
        ELSE IF withTarget.target > maxTarget THEN [ends |-> "false", share |-> withTarget]
        ELSE IF ToNumber(s.info.pow) > withTarget.target
        THEN [ends |-> "false", share |-> withTarget]
        ELSE [ends |-> "true", share |-> [withTarget EXCEPT !.validity = TRUE]]

\* no share was parsed yet
ShareIdle ==
    /\ MAX_TARGET = 0
    /\ version = 0
    /\ reader = [wire |-> NoWire, pos |-> 0]
    /\ share = NoShare
    /\ parsed = "none"

\* the pool has started (MAX_TARGET is set or left at 0) and a caller holds a
\* version and a reader over a share
ShareInputs ==
    /\ MAX_TARGET \in {0} \cup Targets
    /\ version \in Versions
    /\ reader \in [wire : Wires, pos : {0}]
    /\ share = NoShare
    /\ parsed = "none"

\* BaseShare.fromBufferReader(version, reader)
FromBufferReader ==
    /\ parsed = "none"
    /\ IF ~ShareVersionMapper(version)
       THEN /\ parsed' = "null"
            /\ UNCHANGED <<reader, share>>
       ELSE LET r == init(ConstructShare(version, reader.wire), MAX_TARGET)
            IN  /\ reader' = [reader EXCEPT !.pos = @ + ShareFields]
                /\ share' = r.share
                /\ parsed' = IF r.ends = "AssertionError" THEN "AssertionError" ELSE "share"
    /\ UNCHANGED <<MAX_TARGET, version, peerVars, taskVars>>

\* ------------------------------------------- record of remember_tx traffic
\* the record of a node after msgs were handed to its send methods, in order
RECURSIVE Told(_, _)
Told(told, msgs) ==
    IF msgs = <<>> THEN told
    ELSE LET m == Head(msgs)
             keys == {m.hashes[i] : i \in 1..Len(m.hashes)}
                     \cup {TxKey(m.txs[i]) : i \in 1..Len(m.txs)}
         IN  Told(IF m.cmd = "remember_tx" THEN told \cup keys
                  ELSE IF m.cmd = "forget_tx" THEN told \ keys
                  ELSE told,
                  Tail(msgs))

\* the step's sends enter the record; the record of a node goes with the node
TrackTold ==
    toldTxs' = [n \in Nodes |-> IF status'[n] = "absent" THEN {}
                                ELSE Told(toldTxs[n], sent'[n])]

\* --------------------------------------------------------- specifications
Init == PeerInit /\ TaskInit /\ ShareIdle /\ toldTxs = [n \in Nodes |-> {}]

\* Peer registry and disconnects: any interleaving of accepts, outbound connects,
\* end events and remember_tx messages naming one hash, over a small template set
RegistryNext ==
    \/ \E t \in Tags : OnSocketConnected(t) /\ UNCHANGED toldTxs
    \/ \E t \in Tags : InitPeer(t) /\ UNCHANGED toldTxs
    \/ \E n \in Nodes : OnEnd(n) /\ UNCHANGED toldTxs
    \/ \E n \in Nodes, h \in Hashes : HandleRemember_tx(n, <<h>>, <<>>) /\ UNCHANGED toldTxs
    \/ UpdateGbt(<<T1>>) /\ UNCHANGED toldTxs

RegistrySpec == Init /\ [][RegistryNext]_vars

\* One connection at a time sending any remember_tx, interleaved with any updateGbt
NoNodeYet == \A n \in Nodes : status[n] = "absent"

RememberNext ==
    \/ NoNodeYet /\ OnSocketConnected("t1") /\ UNCHANGED toldTxs
    \/ \E n \in Nodes : OnEnd(n) /\ UNCHANGED toldTxs
    \/ \E n \in Nodes, txHashes \in SeqsUpTo(Hashes, MaxHashes), txs \in SeqsUpTo(PeerTxs, MaxPeerTxs) :
          HandleRemember_tx(n, txHashes, txs) /\ UNCHANGED toldTxs
    \/ \E txs \in TemplateTxs(Templates, MaxTxs) : UpdateGbt(txs) /\ UNCHANGED toldTxs

RememberSpec == Init /\ [][RememberNext]_vars

\* peers connect from distinct endpoints: t is the first tag the map has no entry for
FirstFreeTag(t) ==
    /\ peers[t] = NoNode
    /\ t = "t2" => peers["t1"] # NoNode

\* Gossip of template changes towards peers of distinct tags that advertise and
\* withdraw hashes and never violate the protocol
GossipNext ==
    \/ \E t \in Tags : FirstFreeTag(t) /\ OnSocketConnected(t) /\ UNCHANGED toldTxs
    \/ \E n \in Nodes : OnEnd(n) /\ UNCHANGED toldTxs
    \/ \E n \in Nodes, h \in Hashes : OnHaveTx(n, h) /\ UNCHANGED toldTxs
    \/ \E n \in Nodes, h \in Hashes : OnLosingTx(n, h) /\ UNCHANGED toldTxs
    \/ \E txs \in TemplateTxs(Templates, MaxTxs) : UpdateGbt(txs) /\ UNCHANGED toldTxs

GossipSpec == Init /\ [][GossipNext]_vars

\* The version handshake of peers of distinct tags, interleaved with updateGbt
HandshakeNext ==
    \/ \E t \in Tags : FirstFreeTag(t) /\ OnSocketConnected(t) /\ UNCHANGED toldTxs
    \/ \E n \in Nodes : OnEnd(n) /\ UNCHANGED toldTxs
    \/ \E n \in Nodes : HandleNodeVersion(n) /\ UNCHANGED toldTxs
    \/ \E n \in Nodes : HandleNodeVersionResume(n) /\ UNCHANGED toldTxs
    \/ \E txs \in TemplateTxs(Templates, MaxTxs) : UpdateGbt(txs) /\ UNCHANGED toldTxs

HandshakeSpec == Init /\ [][HandshakeNext]_vars

\* A template of MaxRemovals + 1 transactions is loaded, then knownTxs loses its
\* oldest or newest entry, one per assignment
CacheNext ==
    \/ NoNodeYet /\ OnSocketConnected("t1") /\ UNCHANGED toldTxs
    \/ knownTxs = EmptyMap /\ UpdateGbt(CacheTxs) /\ UNCHANGED toldTxs
    \/ \E hash \in {knownTxs[i].k : i \in {1, Len(knownTxs)} \cap DOMAIN knownTxs} :
          LoseKnownTx(hash) /\ UNCHANGED toldTxs

CacheSpec == Init /\ [][CacheNext]_vars

TaskNext ==
    \/ OnPusherReady /\ UNCHANGED toldTxs
    \/ \E c \in Conns : OnBlockNotifyingSocketConnected(c) /\ UNCHANGED toldTxs
    \/ \E c \in Conns, hash \in NotifiedHashes : OnBlockNotifyRead(c, hash) /\ UNCHANGED toldTxs
    \/ \E c \in Conns : OnBlockNotifyRefreshed(c) /\ UNCHANGED toldTxs

TaskSpec == Init /\ [][TaskNext]_vars

\* fromBufferReader applied to any version and any share of the bounded wire set
ShareNext == FromBufferReader /\ UNCHANGED toldTxs

\* the coordinator and the task server as constructed, and a caller about to parse
ShareStart == PeerInit /\ TaskInit /\ ShareInputs /\ toldTxs = [n \in Nodes |-> {}]

ShareSpec == ShareStart /\ [][ShareNext]_vars

\* The handshake slice with the remember_tx traffic of every node on record
SessionNext ==
    \/ \E t \in Tags : FirstFreeTag(t) /\ OnSocketConnected(t) /\ TrackTold
    \/ \E n \in Nodes : OnEnd(n) /\ TrackTold
    \/ \E n \in Nodes : HandleNodeVersion(n) /\ TrackTold
    \/ \E n \in Nodes : HandleNodeVersionResume(n) /\ TrackTold
    \/ \E txs \in TemplateTxs(Templates, MaxTxs) : UpdateGbt(txs) /\ TrackTold

SessionSpec == Init /\ [][SessionNext]_vars

\* Peers of distinct tags sending remember_tx of at most one hash and at most
\* MaxPeerTxs transactions, interleaved with updateGbt of one template
DisconnectNext ==
    \/ \E t \in Tags : FirstFreeTag(t) /\ OnSocketConnected(t) /\ UNCHANGED toldTxs
    \/ \E n \in Nodes : OnEnd(n) /\ UNCHANGED toldTxs
    \/ \E n \in Nodes, txHashes \in SeqsUpTo(Hashes, 1), txs \in SeqsUpTo(PeerTxs, MaxPeerTxs) :
          HandleRemember_tx(n, txHashes, txs) /\ UNCHANGED toldTxs
    \/ UpdateGbt(<<T2>>) /\ UNCHANGED toldTxs

DisconnectSpec == Init /\ [][DisconnectNext]_vars

\* ------------------------------------------------------------------ claims
Range(seq) == {seq[i] : i \in 1..Len(seq)}
Distinct(seq) == \A i, j \in 1..Len(seq) : seq[i] = seq[j] => i = j

\* C1: when the block-notify listener is handed the same non-empty hash on two
\* successive connections, refreshMiningInfoAsync is invoked for the first delivery
\* and not for the second
C1_DuplicateNotifyRefreshesOnce ==
    (/\ Len(notifyLog) >= 2
     /\ notifyLog[1].hash # ""
     /\ notifyLog[2].hash = notifyLog[1].hash)
    => (notifyLog[1].refreshed /\ ~notifyLog[2].refreshed)

\* C2: a remember_tx whose hashes are pairwise distinct, all known (in knownTxs or a
\* cache snapshot) and none yet remembered by the sender, and that carries no full
\* transaction, leaves the sender open and adds every hash to its rememberedTxs
C2_DistinctKnownHashesAreRemembered ==
    [][(/\ lastOp'.op = "remember_tx"
        /\ lastOp'.txs = <<>>
        /\ Distinct(lastOp'.hashes)
        /\ \A h \in Range(lastOp'.hashes) :
              /\ LookupKnownTx(knownTxs, knownTxsCaches, h) # NoTx
              /\ h \notin rememberedTxs[lastOp'.node])
       => (/\ status'[lastOp'.node] = "live"
           /\ Range(lastOp'.hashes) \subseteq rememberedTxs'[lastOp'.node])]_vars

\* C3: a remember_tx([Y], []) whose Y is in neither knownTxs nor any cache snapshot
\* closes the sender's socket, and once the end of a node is processed no entry of
\* the peers map holds that node
C3_UnknownHashDisconnects ==
    [][/\ (/\ lastOp'.op = "remember_tx"
           /\ Len(lastOp'.hashes) = 1
           /\ lastOp'.txs = <<>>
           /\ ~MapHas(knownTxs, lastOp'.hashes[1])
           /\ \A i \in 1..Len(knownTxsCaches) : ~MapHas(knownTxsCaches[i], lastOp'.hashes[1]))
          => (status'[lastOp'.node] = "closed" /\ status[lastOp'.node] = "live")
       /\ (lastOp'.op = "end") => (\A t \in Tags : peers'[t] # lastOp'.node)]_vars

\* the end of a node closed for an unknown hash was processed and the map lacks it
C3_Witness ==
    /\ lastOp.op = "end"
    /\ lastOp.result = "unknown"
    /\ \A t \in Tags : peers[t] # lastOp.node

\* C4: every node that was registered and whose socket has not ended is the entry
\* of the peers map under its own tag
C4_PeersMapHoldsEveryRegisteredNode ==
    \A n \in Nodes : status[n] \in {"live", "closed"} => peers[tag[n]] = n

\* C5: knownTxsCaches never holds more than 10 snapshots
C5_CachesAtMostTen == Len(knownTxsCaches) <= MaxCaches

\* an eleventh assignment to knownTxs has happened and the list holds 10 snapshots
C5_Witness ==
    /\ knownSets = MaxCaches + 1
    /\ Len(knownTxsCaches) = MaxCaches
    /\ lastOp.op \in {"updateGbt", "remember_tx"}

C7_FirstTemplateIsGossiped ==
    [][\A n \in Nodes :
          (/\ knownTxs = EmptyMap
           /\ miningTxs = EmptyMap
           /\ n \in PeerNodes(peers)
           /\ remoteTxHashs[n] = {}
           /\ lastOp'.op = "updateGbt"
           /\ Len(lastOp'.txs) = 1
           /\ lastOp'.txs[1].txid # "")
          => (/\ Len(sent'[n]) = 2
              /\ Range(sent'[n]) =
                    {[cmd |-> "have_tx", hashes |-> <<lastOp'.txs[1].txid>>, txs |-> <<>>,
                      totalSize |-> 0],
                     [cmd |-> "remember_tx", hashes |-> <<>>, txs |-> lastOp'.txs,
                      totalSize |-> 0]})]_vars

\* the first updateGbt, with the one transaction T1, reached a registered peer
C7_Witness ==
    /\ lastOp.op = "updateGbt"
    /\ lastOp.txs = <<T1>>
    /\ knownSets = 1
    /\ \E n \in PeerNodes(peers) :
          /\ remoteTxHashs[n] = {}
          /\ HaveTxMsg(<<"h1">>) \in Range(sent[n])
          /\ RememberTxMsg(<<>>, <<T1>>) \in Range(sent[n])

\* C8: when a registered node raises versionVerified the coordinator sends it
\* have_tx with exactly the keys of knownTxs; the remember_tx of the handshake
\* carries no hashes and exactly the values of miningTxs, and is sent only after
\* that have_tx
C8_HandshakeMessages ==
    [][/\ (lastOp'.op = "versionVerified") =>
             (/\ hsPc[lastOp'.node] = "none"
              /\ sent'[lastOp'.node] =
                    <<[cmd |-> "have_tx",
                       hashes |-> [i \in 1..Len(knownTxs) |-> knownTxs[i].k],
                       txs |-> <<>>, totalSize |-> 0]>>)
       /\ (lastOp'.op = "versionResume") =>
             (/\ hsPc[lastOp'.node] = "awaitHave"
              /\ sent'[lastOp'.node] =
                    <<[cmd |-> "remember_tx", hashes |-> <<>>,
                       txs |-> [i \in 1..Len(miningTxs) |-> miningTxs[i].v],
                       totalSize |-> 0]>>)]_vars

\* a handshake completed while miningTxs held a transaction
C8_Witness ==
    /\ lastOp.op = "versionResume"
    /\ hsPc[lastOp.node] = "done"
    /\ miningTxs # EmptyMap
    /\ sent[lastOp.node] = <<RememberTxMsg(<<>>, MapValues(miningTxs))>>

RECURSIVE SumData(_, _)
SumData(m, idx) ==
    IF idx = {} THEN 0
    ELSE LET i == CHOOSE x \in idx : TRUE IN m[i].v.data + SumData(m, idx \ {i})

\* C9: when an assignment to miningTxs removes templates, every registered peer is
\* sent exactly one forget_tx, whose hashes are the keys (txid, else hash) of the
\* removed templates and whose totalSize is the sum of their data.length / 2
C9_ForgetTxAccounting ==
    [][LET removed == {i \in 1..Len(miningTxs) :
                          \A j \in 1..Len(miningTxs') : miningTxs'[j].k # miningTxs[i].k}
           forgets(n) == SelectSeq(sent'[n], LAMBDA m : m.cmd = "forget_tx")
       IN  (lastOp'.op = "updateGbt" /\ removed # {}) =>
              \A n \in PeerNodes(peers) :
                 /\ Len(forgets(n)) = 1
                 /\ Len(forgets(n)[1].hashes) = Cardinality(removed)
                 /\ Range(forgets(n)[1].hashes) =
                       {IF miningTxs[i].v.txid # "" THEN miningTxs[i].v.txid
                        ELSE miningTxs[i].v.hash : i \in removed}
                 /\ 2 * forgets(n)[1].totalSize = SumData(miningTxs, removed)]_vars

\* two templates of hex lengths 200 and 300 were removed: totalSize 250
C9_Witness ==
    /\ lastOp.op = "updateGbt"
    /\ \E n \in PeerNodes(peers) : \E i \in 1..Len(sent[n]) :
          /\ sent[n][i].cmd = "forget_tx"
          /\ Range(sent[n][i].hashes) = {"h1", "h2"}
          /\ sent[n][i].totalSize = 250

\* C10: after updateGbt(template) the keys of knownTxs include txid || hash of every
\* transaction of the template, and the keys of miningTxs are exactly those keys
C10_UpdateGbtKeys ==
    (lastOp.op = "updateGbt") =>
        LET keys == {IF t.txid # "" THEN t.txid ELSE t.hash : t \in Range(lastOp.txs)}
        IN  /\ keys \subseteq KeySet(knownTxs)
            /\ KeySet(miningTxs) = keys

\* an updateGbt replaced a miningTxs of other transactions and kept knownTxs' keys
C10_Witness ==
    /\ lastOp.op = "updateGbt"
    /\ lastOp.txs = <<T1>>
    /\ KeySet(miningTxs) = {"h1"}
    /\ KeySet(knownTxs) = {"h1", "h2"}
    /\ knownSets >= 3

\* the hash-ref tuples of shareCount 0
ZeroRefCount(refs) == Cardinality({i \in 1..Len(refs) : refs[i].shareCount = 0})

\* C11: every share on which init() set validity = true has PowFunc(header), read
\* as a little-endian integer, at most target, target at most MAX_TARGET, and as
\* many hash-ref tuples of shareCount 0 as newTransactionHashes has entries
C11_ValidShareBounds ==
    (parsed = "share" /\ share.validity)
    => /\ share.info.pow <= share.target
       /\ share.target <= MAX_TARGET
       /\ ZeroRefCount(share.info.refs) = Len(share.info.newTransactionHashes)

\* C12: a share whose hash refs hold a tuple with shareCount >= 110 comes out of
\* init() with validity = false and without an exception: fromBufferReader
\* returns it
C12_LargeShareCountIsInvalidNotThrown ==
    (/\ parsed # "none"
     /\ version \in {16, 17}
     /\ \E i \in 1..Len(reader.wire.refs) : reader.wire.refs[i].shareCount >= 110)
    => (parsed = "share" /\ ~share.validity)

\* C13: fromBufferReader called with a version other than 16 and 17 returns null,
\* raises nothing and reads nothing from the reader
C13_UnknownVersionReturnsNull ==
    (parsed # "none" /\ version \notin {16, 17})
    => (parsed = "null" /\ reader.pos = 0 /\ share = NoShare)

C13_Witness == parsed = "null" /\ version = 18 /\ reader.wire.refs # <<>>

\* the messages of one command among those handed to a node's send methods
OfCmd(msgs, cmd) == SelectSeq(msgs, LAMBDA m : m.cmd = cmd)

\* msgs is empty when keys is, and otherwise one message listing keys, each once
ExactlyWhenNonEmpty(msgs, keys) ==
    IF keys = {} THEN msgs = <<>>
    ELSE Len(msgs) = 1 /\ Range(msgs[1].hashes) = keys /\ Distinct(msgs[1].hashes)

AddedTemplates == {miningTxs'[i].v : i \in {j \in 1..Len(miningTxs') : ~MapHas(miningTxs, miningTxs'[j].k)}}
KeyOf(tx) == IF tx.txid # "" THEN tx.txid ELSE tx.hash

\* C15: when a miningTxs change adds templates, the remember_tx sent to each peer
\* p lists as hashes exactly the keys of the added templates whose key is in
\* p.remoteTxHashs and as txs exactly the added templates whose key is not, and
\* every added template is in exactly one of the two
C15_RememberTxPartitionsAdded ==
    [][(lastOp'.op = "updateGbt" /\ AddedTemplates # {})
       => \A p \in PeerNodes(peers) :
            LET msgs == OfCmd(sent'[p], "remember_tx")
            IN  /\ Len(msgs) = 1
                /\ Distinct(msgs[1].hashes) /\ Distinct(msgs[1].txs)
                /\ Range(msgs[1].hashes)
                     = {KeyOf(tx) : tx \in {a \in AddedTemplates : KeyOf(a) \in remoteTxHashs[p]}}
                /\ Range(msgs[1].txs) = {a \in AddedTemplates : KeyOf(a) \notin remoteTxHashs[p]}
                /\ \A a \in AddedTemplates :
                      (KeyOf(a) \in Range(msgs[1].hashes)) # (a \in Range(msgs[1].txs))]_vars

\* a peer that advertised one of two added keys got one as a hash, the other in full
C15_Witness ==
    /\ lastOp.op = "updateGbt"
    /\ \E p \in PeerNodes(peers) :
          /\ Cardinality(remoteTxHashs[p]) = 1
          /\ \E i \in 1..Len(sent[p]) :
                /\ sent[p][i].cmd = "remember_tx"
                /\ Len(sent[p][i].hashes) = 1
                /\ Len(sent[p][i].txs) = 1

MsgKeys(m) == Range(m.hashes) \cup {KeyOf(tx) : tx \in Range(m.txs)}

\* no remember_tx among msgs carries a key the node was told and not asked to forget
RECURSIVE NoRepeat(_, _)
NoRepeat(told, msgs) ==
    IF msgs = <<>> THEN TRUE
    ELSE /\ Head(msgs).cmd = "remember_tx" => MsgKeys(Head(msgs)) \cap told = {}
         /\ NoRepeat(Told(told, <<Head(msgs)>>), Tail(msgs))

\* C16: whatever the interleaving of updateGbt with a node's registration and its
\* versionVerified handling, no node is sent the same key in two remember_tx
\* messages without a forget_tx for that key in between
C16_NoKeyRememberedTwice ==
    [][\A n \in Nodes : status'[n] # "absent" => NoRepeat(toldTxs[n], sent'[n])]_vars

\* every forget_tx among msgs names only keys the node was told and not yet asked to forget
RECURSIVE OnlyTold(_, _)
OnlyTold(told, msgs) ==
    IF msgs = <<>> THEN TRUE
    ELSE /\ Head(msgs).cmd = "forget_tx" => Range(Head(msgs).hashes) \subseteq told
         /\ OnlyTold(Told(told, <<Head(msgs)>>), Tail(msgs))

\* C17: a forget_tx naming a key is sent to a node only if an earlier remember_tx
\* to that node carried the key and no forget_tx for it was sent since, also
\* while the node is registered and has not raised versionVerified
C17_ForgetOnlyWhatWasRemembered ==
    [][\A n \in Nodes : status'[n] # "absent" => OnlyTold(toldTxs[n], sent'[n])]_vars

\* C18: under any sequence of updateGbt calls and remember_tx messages knownTxs
\* never loses a key, no losing_tx is sent and every snapshot in knownTxsCaches
\* is an empty map
C18_KnownTxsOnlyGrows ==
    [][/\ KeySet(knownTxs) \subseteq KeySet(knownTxs')
       /\ \A n \in Nodes : OfCmd(sent'[n], "losing_tx") = <<>>
       /\ \A i \in 1..Len(knownTxsCaches') : knownTxsCaches'[i] = EmptyMap]_vars

\* a template was replaced by an empty one: miningTxs lost its keys, knownTxs kept them
C18_Witness ==
    /\ lastOp.op = "updateGbt"
    /\ lastOp.txs = <<>>
    /\ miningTxs = EmptyMap
    /\ Len(knownTxs) >= 2
    /\ Len(knownTxsCaches) >= 2
    /\ PeerNodes(peers) # {}

\* C19: a remember_tx that ends in a disconnect leaves knownTxs, miningTxs and
\* knownTxsCaches as they were, sends no have_tx and no losing_tx to any node, and
\* leaves every other node live and in the peers map
C19_DisconnectChangesOnlySender ==
    [][(lastOp'.op = "remember_tx" /\ lastOp'.result # "ok")
       => /\ knownTxs' = knownTxs
          /\ miningTxs' = miningTxs
          /\ knownTxsCaches' = knownTxsCaches
          /\ \A n \in Nodes : /\ OfCmd(sent'[n], "have_tx") = <<>>
                              /\ OfCmd(sent'[n], "losing_tx") = <<>>
          /\ \A n \in Nodes \ {lastOp'.node} :
                /\ status'[n] = status[n]
                /\ \A t \in Tags : peers[t] = n => peers'[t] = n]_vars

\* a node was closed for a hash nobody knows, sent along with a transaction that
\* knownTxs lacks, while another node is registered
C19_Witness ==
    /\ lastOp.op = "remember_tx"
    /\ lastOp.result = "unknown"
    /\ lastOp.txs # <<>>
    /\ \A i \in 1..Len(lastOp.txs) : ~MapHas(knownTxs, lastOp.txs[i].hash)
    /\ \E n \in PeerNodes(peers) : n # lastOp.node /\ status[n] = "live"

\* C20: between handlers, every key of miningTxs is a key of knownTxs
C20_MiningTxsAreKnown == KeySet(miningTxs) \subseteq KeySet(knownTxs)

\* a template is being mined while knownTxs also holds a transaction a peer sent
C20_Witness ==
    /\ miningTxs # EmptyMap
    /\ KeySet(knownTxs) \ KeySet(miningTxs) # {}
    /\ lastOp.op = "remember_tx"
    /\ lastOp.result = "ok"

====
